---- MODULE Spec2Model ----
(***************************************************************************)
(* Model of optimize_logo.py: a straight-line script that re-encodes one   *)
(* image, checks the size of the written file against 1 MiB, resizes and   *)
(* re-encodes up to twice, and copies the result to a fixed destination.   *)
(*                                                                         *)
(* Python floats are IEEE-754 doubles.  They are modelled as a 53-bit      *)
(* mantissa (a little-endian sequence of bits) and a binary exponent, with *)
(* round-to-nearest-even after every operation, so that int(w * 0.9) and   *)
(* size / 1024 / 1024 >= 1.0 are computed the way the interpreter does.    *)
(***************************************************************************)
EXTENDS Integers, Sequences, FiniteSets, TLC

\* ------------------------------------------------------------------ bounds

\* Source images have every width and height in 1..MaxSmallDim, and the
\* sample sizes below.
MaxSmallDim == 3

\* Encoded files have every size within MaxSlack bytes of 1 MiB, and the
\* sample sizes below.
MaxSlack == 1

\* ------------------------------------------------------- program constants

\* os.path.getsize(...) / 1024 / 1024
Kib == 1024

\* new_size = (800, 800)
Stage2Dim == 800

\* significand width of a Python float
MantBits == 53

\* width of the pieces long multiplication works on
LimbBits == 14

MiB == Kib * Kib

\* <<width, height>> of the source images the model draws from
SampleImages ==
    {<<10, 10>>, <<500, 500>>, <<700, 700>>, <<799, 801>>, <<800, 800>>,
     <<4000, 3000>>, <<3000, 4000>>, <<1, 4000>>}

Images == ((1..MaxSmallDim) \X (1..MaxSmallDim)) \cup SampleImages

Dims == {p[1] : p \in Images} \cup {p[2] : p \in Images}

\* The size of an encoded file depends on the pixels and on what the encoder
\* embeds with them (an ICC profile is carried through resize and save), not
\* on the pixel dimensions alone: every image may get every size.
ByteSizes == {419430, 2 * MiB} \cup ((MiB - MaxSlack)..(MiB + MaxSlack))

\* ------------------------------------------------------------ bit strings

\* Natural numbers as little-endian sequences of bits, without leading
\* (high-end) zeros.  The operators avoid passing a computed sequence down a
\* recursion, so that their cost stays polynomial when TLC evaluates them
\* inside ENABLED.

Max(S) == CHOOSE x \in S : \A y \in S : y <= x
Min(S) == CHOOSE x \in S : \A y \in S : x <= y

\* Number of bits of n, for 0 <= n < 2^31
BitLen(n) == Cardinality({k \in 0..30 : 2^k <= n})

NatToBits(n) == [i \in 1..BitLen(n) |-> (n \div 2^(i - 1)) % 2]

RECURSIVE Weigh(_, _)
Weigh(b, i) == IF i > Len(b) THEN 0 ELSE b[i] * 2^(i - 1) + Weigh(b, i + 1)

BitsToNat(b) == Weigh(b, 1)

Zeros(k) == [i \in 1..k |-> 0]

Strip(b) ==
    LET ones == {i \in 1..Len(b) : b[i] = 1}
    IN  IF ones = {} THEN <<>> ELSE SubSeq(b, 1, Max(ones))

\* b + 1
Increment(b) ==
    LET zeros == {i \in 1..Len(b) : b[i] = 0}
    IN  IF zeros = {} THEN Zeros(Len(b)) \o <<1>>
        ELSE [i \in 1..Len(b) |->
                 IF i < Min(zeros) THEN 0
                 ELSE IF i = Min(zeros) THEN 1 ELSE b[i]]

\* The j-th group of LimbBits bits of b (j = 0 is the low end), as a number
Limb(b, j) ==
    LET lo == j * LimbBits + 1
        hi == IF lo + LimbBits - 1 < Len(b) THEN lo + LimbBits - 1 ELSE Len(b)
    IN  BitsToNat(SubSeq(b, lo, hi))

\* n * b + c by long multiplication, limb by limb from the low end, for
\* n < 2^16: Carry(n, b, j) is the carry into limb j.
RECURSIVE Carry(_, _, _)
Carry(n, b, j) ==
    IF j = 0 THEN 0
    ELSE (n * Limb(b, j - 1) + Carry(n, b, j - 1)) \div 2^LimbBits

ProductLimb(n, b, j) == (n * Limb(b, j) + Carry(n, b, j)) % 2^LimbBits

\* The product of a and b, for a < 2^16
MulBits(a, b) ==
    LET n     == BitsToNat(a)
        limbs == (Len(b) + LimbBits - 1) \div LimbBits
    IN  Strip([i \in 1..(limbs * LimbBits) |->
                  (ProductLimb(n, b, (i - 1) \div LimbBits)
                      \div 2^((i - 1) % LimbBits)) % 2]
              \o NatToBits(Carry(n, b, limbs)))

\* a >= b for stripped bit strings: the longer one, or else the one with
\* the 1 at the highest position where they differ
GeBits(a, b) ==
    IF Len(a) # Len(b) THEN Len(a) > Len(b)
    ELSE LET diff == {i \in 1..Len(a) : a[i] # b[i]}
         IN  diff = {} \/ a[Max(diff)] > b[Max(diff)]

\* ----------------------------------------------------------------- floats

\* The double nearest to the real number bits * 2^exp (round half to even).
RoundToDouble(bits, exp) ==
    LET L == Len(bits) IN
    IF L <= MantBits THEN [mant |-> bits, exp |-> exp]
    ELSE LET k      == L - MantBits
             kept   == SubSeq(bits, k + 1, L)
             sticky == \E i \in 1..(k - 1) : bits[i] = 1
             up     == bits[k] = 1 /\ (sticky \/ kept[1] = 1)
             m      == IF up THEN Increment(kept) ELSE kept
         IN  IF Len(m) > MantBits
             THEN [mant |-> Tail(m), exp |-> exp + k + 1]
             ELSE [mant |-> m, exp |-> exp + k]

FloatOfInt(n) == RoundToDouble(NatToBits(n), 0)

FloatMul(a, b) == RoundToDouble(MulBits(a.mant, b.mant), a.exp + b.exp)

\* a / b where b is a power of two (1024.0): the significand is unchanged
\* and the exponent drops, which is exact.
FloatDiv(a, b) == [mant |-> a.mant, exp |-> a.exp - (b.exp + Len(b.mant) - 1)]

FloatGe(a, b) ==
    LET e == IF a.exp < b.exp THEN a.exp ELSE b.exp
    IN  GeBits(Strip(Zeros(a.exp - e) \o a.mant), Strip(Zeros(b.exp - e) \o b.mant))

\* The literal 0.9: 0x3FECCCCCCCCCCCCD, i.e. 0x1CCCCCCCCCCCCD * 2^-53.
HexC == <<0, 0, 1, 1>>
HexD == <<1, 0, 1, 1>>
PointNine ==
    [mant |-> HexD \o HexC \o HexC \o HexC \o HexC \o HexC \o HexC
                   \o HexC \o HexC \o HexC \o HexC \o HexC \o HexC \o <<1>>,
     exp  |-> 0 - MantBits]

\* The literal 1.0
FloatOne == FloatOfInt(1)

\* round(f): nearest integer, half to even
PyRound(f) ==
    IF f.exp >= 0 THEN BitsToNat(Zeros(f.exp) \o f.mant)
    ELSE LET d == 0 - f.exp
             L == Len(f.mant)
             t == IF d >= L THEN 0 ELSE BitsToNat(SubSeq(f.mant, d + 1, L))
             half == d <= L /\ f.mant[d] = 1
             sticky == \E i \in 1..(d - 1) : i <= L /\ f.mant[i] = 1
         IN  IF half /\ (sticky \/ t % 2 = 1) THEN t + 1 ELSE t

\* int(f): truncation toward zero
PyInt(f) ==
    IF f.exp >= 0 THEN BitsToNat(Zeros(f.exp) \o f.mant)
    ELSE IF 0 - f.exp >= Len(f.mant) THEN 0
    ELSE BitsToNat(SubSeq(f.mant, 1 - f.exp, Len(f.mant)))

\* ------------------------------------------------------------------ state

VARIABLES
    pc,           \* the statement the script is about to execute
    src,          \* logo_original.png on disk: pixel size, and whether it decodes
    img,          \* img
    new_size,     \* new_size
    img_resized,  \* img_resized
    optimized,    \* the file logo_optimized.png
    published,    \* the file in the Downloads folder
    size,         \* <<size1, size2, size3>>, as far as they are assigned
    encodes,      \* the content each completed save wrote, in order
    saveCalls,    \* calls of Image.save
    resizeCalls,  \* calls of Image.resize
    stage,        \* Initial, FirstPass, SecondPass or Published
    fault,        \* the statement that raised, or "none"
    exit,         \* running, success or failure
    trace         \* the statements executed so far, in order

vars == <<pc, src, img, new_size, img_resized, optimized, published, size,
          encodes, saveCalls, resizeCalls, stage, fault, exit, trace>>

\* A name that is not bound yet
Unbound == [w |-> 0, h |-> 0]

File(kind, pass, w, h, quality, bytes) ==
    [kind |-> kind, pass |-> pass, w |-> w, h |-> h,
     quality |-> quality, bytes |-> bytes]

NoFile == File("absent", 0, 0, 0, 0, 0)
StaleFile == File("stale", 0, 0, 0, 0, 0)
PartialFile == File("partial", 0, 0, 0, 0, 0)
SourceFile == File("source", 0, src.w, src.h, 0, 0)

Init ==
    /\ pc = "load"
    /\ src \in {[w |-> p[1], h |-> p[2], ok |-> ok] : p \in Images, ok \in BOOLEAN}
    /\ img = Unbound
    /\ new_size = <<0, 0>>
    /\ img_resized = Unbound
    /\ optimized \in {NoFile, StaleFile}
    /\ published \in {NoFile, StaleFile}
    /\ size = <<>>
    /\ encodes = <<>>
    /\ saveCalls = 0
    /\ resizeCalls = 0
    /\ stage = "Initial"
    /\ fault = "none"
    /\ exit = "running"
    /\ trace = <<>>

\* Raise with the exception swallowed (a bare "except: pass" around the
\* statement): the script carries on to the copy.
RaiseSwallowed(at) ==
    /\ pc' = "publish"
    /\ fault' = at
    /\ UNCHANGED exit

\* An exception nothing catches: the interpreter prints the traceback and
\* exits with a non-zero status.
Raise(at) ==
    /\ pc' = "failed"
    /\ fault' = at
    /\ exit' = "failure"

Goto(next) ==
    /\ pc' = next
    /\ UNCHANGED <<fault, exit>>

\* img = Image.open('logo_original.png')
Load ==
    /\ pc = "load"
    /\ trace' = Append(trace, "load")
    /\ \/ /\ src.ok
          /\ img' = [w |-> src.w, h |-> src.h]
          /\ Goto("encode1")
       \/ /\ ~src.ok
          /\ UNCHANGED img
          /\ Raise("load")
    /\ UNCHANGED <<src, new_size, img_resized, optimized, published, size,
                   encodes, saveCalls, resizeCalls, stage>>

\* image.save('logo_optimized.png', 'PNG', optimize=True, quality=quality)
Save(at, next, image, quality) ==
    /\ pc = at
    /\ trace' = Append(trace, at)
    /\ saveCalls' = saveCalls + 1
    /\ \/ \E bytes \in ByteSizes :
            LET f == File("encoded", Len(encodes) + 1, image.w, image.h,
                          quality, bytes)
            IN  /\ optimized' = f
                /\ encodes' = Append(encodes, f)
                /\ Goto(next)
       \/ \E f \in {optimized, PartialFile} :
            /\ optimized' = f
            /\ UNCHANGED encodes
            /\ Raise(at)
    /\ UNCHANGED <<src, img, new_size, img_resized, published, size,
                   resizeCalls, stage>>

\* SizeInMB with one division by 1024 left out
SizeInKB(file) == FloatDiv(FloatOfInt(file.bytes), FloatOfInt(Kib))

\* os.path.getsize('logo_optimized.png') / 1024 / 1024
SizeInMB(file) ==
    FloatDiv(FloatDiv(FloatOfInt(file.bytes), FloatOfInt(Kib)), FloatOfInt(Kib))

\* sizeN = os.path.getsize('logo_optimized.png') / 1024 / 1024
GetSize(at, next) ==
    /\ pc = at
    /\ trace' = Append(trace, at)
    /\ size' = Append(size, SizeInMB(optimized))
    /\ Goto(next)
    /\ UNCHANGED <<src, img, new_size, img_resized, optimized, published,
                   encodes, saveCalls, resizeCalls, stage>>

\* NeedsReduction with > in place of >=
NeedsReductionStrict(s) == ~FloatGe(FloatOne, s)

\* sizeN >= 1.0
NeedsReduction(s) == FloatGe(s, FloatOne)

\* if sizeN >= 1.0:
Gate(at, n, inside, entered, after) ==
    /\ pc = at
    /\ trace' = Append(trace, at)
    /\ IF NeedsReduction(size[n])
       THEN /\ stage' = entered
            /\ Goto(inside)
       ELSE /\ UNCHANGED stage
            /\ Goto(after)
    /\ UNCHANGED <<src, img, new_size, img_resized, optimized, published,
                   size, encodes, saveCalls, resizeCalls>>

\* int(d * 0.9), tabulated once for the dimensions an image can have
NineTenthsTable ==
    {<<d, PyInt(FloatMul(FloatOfInt(d), PointNine))>> : d \in Dims}

NineTenths(d) == (CHOOSE p \in NineTenthsTable : p[1] = d)[2]

\* (int(img.width * 0.9), int(img.height * 0.9))
Stage1Target == <<NineTenths(img.w), NineTenths(img.h)>>

\* Stage2Target keeping the aspect ratio of the original
Stage2TargetKeepAspect == <<Stage2Dim, (Stage2Dim * img.h) \div img.w>>

\* (800, 800)
Stage2Target == <<Stage2Dim, Stage2Dim>>

\* new_size = target
NewSize(at, next, target) ==
    /\ pc = at
    /\ trace' = Append(trace, at)
    /\ new_size' = target
    /\ Goto(next)
    /\ UNCHANGED <<src, img, img_resized, optimized, published, size,
                   encodes, saveCalls, resizeCalls, stage>>

\* img_resized = img.resize(new_size, Image.Resampling.LANCZOS)
\* Pillow raises ValueError for a target that is not positive in both axes.
Resize(at, next) ==
    /\ pc = at
    /\ trace' = Append(trace, at)
    /\ resizeCalls' = resizeCalls + 1
    /\ \/ /\ new_size[1] >= 1 /\ new_size[2] >= 1
          /\ img_resized' = [w |-> new_size[1], h |-> new_size[2]]
          /\ Goto(next)
       \/ /\ UNCHANGED img_resized
          /\ Raise(at)
    /\ UNCHANGED <<src, img, new_size, optimized, published, size, encodes,
                   saveCalls, stage>>

Encode1 == Save("encode1", "getsize1", img, 85)
GetSize1 == GetSize("getsize1", "gate1")
Gate1 == Gate("gate1", 1, "newsize1", "FirstPass", "publish")
NewSize1 == NewSize("newsize1", "resize1", Stage1Target)
Resize1 == Resize("resize1", "encode2")
Encode2 == Save("encode2", "getsize2", img_resized, 85)
GetSize2 == GetSize("getsize2", "gate2")

\* Gate2 without its test: the aggressive resize always follows
Gate2Unconditional ==
    /\ pc = "gate2"
    /\ trace' = Append(trace, "gate2")
    /\ stage' = "SecondPass"
    /\ Goto("newsize2")
    /\ UNCHANGED <<src, img, new_size, img_resized, optimized, published,
                   size, encodes, saveCalls, resizeCalls>>

Gate2 == Gate("gate2", 2, "newsize2", "SecondPass", "publish")
NewSize2 == NewSize("newsize2", "resize2", Stage2Target)
Resize2 == Resize("resize2", "encode3")
Encode3 == Save("encode3", "getsize3", img_resized, 80)

\* GetSize3 followed by a third gate that gives up (sys.exit(1)) when the
\* file is still too large
GetSize3Gated ==
    /\ pc = "getsize3"
    /\ trace' = Append(trace, "getsize3")
    /\ size' = Append(size, SizeInMB(optimized))
    /\ IF optimized.bytes >= MiB
       THEN pc' = "failed" /\ exit' = "failure" /\ UNCHANGED fault
       ELSE Goto("publish")
    /\ UNCHANGED <<src, img, new_size, img_resized, optimized, published,
                   encodes, saveCalls, resizeCalls, stage>>

GetSize3 == GetSize("getsize3", "publish")

\* Publish copying logo_original.png instead of logo_optimized.png
PublishOriginal ==
    /\ pc = "publish"
    /\ trace' = Append(trace, "publish")
    /\ published' = SourceFile
    /\ stage' = "Published"
    /\ pc' = "done"
    /\ exit' = "success"
    /\ UNCHANGED <<src, img, new_size, img_resized, optimized, size, encodes,
                   saveCalls, resizeCalls, fault>>

\* shutil.copy('logo_optimized.png', '/mnt/c/Users/bsamm/Downloads/logo_optimized.png')
Publish ==
    /\ pc = "publish"
    /\ trace' = Append(trace, "publish")
    /\ \/ /\ published' = optimized
          /\ stage' = "Published"
          /\ pc' = "done"
          /\ exit' = "success"
          /\ UNCHANGED fault
       \/ \E f \in {published, PartialFile} :
            /\ published' = f
            /\ UNCHANGED stage
            /\ Raise("publish")
    /\ UNCHANGED <<src, img, new_size, img_resized, optimized, size, encodes,
                   saveCalls, resizeCalls>>

Next ==
    \/ Load
    \/ Encode1 \/ GetSize1 \/ Gate1
    \/ NewSize1 \/ Resize1 \/ Encode2 \/ GetSize2 \/ Gate2
    \/ NewSize2 \/ Resize2 \/ Encode3 \/ GetSize3
    \/ Publish

Spec == Init /\ [][Next]_vars

\* The interpreter runs the next statement whenever there is one.
FairSpec == Spec /\ WF_vars(Next)

\* ----------------------------------------------------------------- claims

InTrace(at) == \E i \in 1..Len(trace) : trace[i] = at

Rank(s) ==
    CASE s = "Initial" -> 0
      [] s = "FirstPass" -> 1
      [] s = "SecondPass" -> 2
      [] s = "Published" -> 3

\* C1: when the first encode writes a file smaller than 1 MiB, the Resizer
\* is never called in the run and the published file has the width and
\* height of the original image.
C1_SmallFirstEncodeNoResize ==
    (Len(encodes) >= 1 /\ encodes[1].bytes < MiB) =>
        /\ resizeCalls = 0
        /\ ~InTrace("resize1") /\ ~InTrace("resize2")
        /\ stage = "Published" => (published.w = src.w /\ published.h = src.h)

C1_Witness ==
    /\ stage = "Published"
    /\ src.w = 500 /\ src.h = 500
    /\ encodes[1].bytes = 419430
    /\ resizeCalls = 0
    /\ published.w = 500 /\ published.h = 500

\* C2: in Published, the destination file exists and holds exactly what the
\* last encode of the run wrote, not an earlier encode's output nor the
\* source file.
C2_PublishedIsLastEncode ==
    stage = "Published" =>
        /\ encodes # <<>>
        /\ published.kind = "encoded"
        /\ published = encodes[Len(encodes)]
        /\ published.pass = saveCalls
        /\ \A i \in 1..(Len(encodes) - 1) : published # encodes[i]

C2_Witness ==
    /\ stage = "Published"
    /\ Len(encodes) = 3
    /\ published = encodes[3]
    /\ published # encodes[1] /\ published # encodes[2]

\* C3: a failure of any stage ends the run there: the failing statement is
\* the last one executed, Published is not reached, the process ends in
\* failure, and the Publisher has not run after a failed load, encode or
\* resize.
C3_FailureAborts ==
    /\ fault # "none" =>
        /\ pc = "failed"
        /\ exit = "failure"
        /\ stage # "Published"
        /\ trace # <<>> /\ trace[Len(trace)] = fault
        /\ fault # "publish" =>
              (~InTrace("publish") /\ published.kind \in {"absent", "stale"})
    /\ exit = "success" => (fault = "none" /\ stage = "Published")
    /\ stage = "Published" => exit = "success"

C3_Witness ==
    /\ pc = "failed"
    /\ fault = "encode2"
    /\ exit = "failure"
    /\ published.kind = "stale"
    /\ trace[Len(trace)] = "encode2"

\* C4: a run in which nothing fails eventually reaches Published, and once
\* SecondPass is entered the run goes on to Published (or fails) whatever
\* the size of the third encoding is.
C4_ReachesPublished ==
    /\ ([](fault = "none")) => <>(stage = "Published")
    /\ (stage = "SecondPass") ~> (stage = "Published" \/ fault # "none")

C4_Witness ==
    /\ stage = "Published"
    /\ Len(encodes) = 3
    /\ published.pass = 3
    /\ published.bytes >= MiB

\* One step of a run, as far as the stage is concerned
C5_StageStep ==
    /\ Rank(stage') >= Rank(stage)
    /\ (stage' = "FirstPass" /\ stage # "FirstPass") =>
          (stage = "Initial" /\ pc = "gate1" /\ NeedsReduction(size[1]))
    /\ (stage' = "SecondPass" /\ stage # "SecondPass") =>
          (stage = "FirstPass" /\ pc = "gate2" /\ NeedsReduction(size[2]))
    /\ (stage' = "Published" /\ stage # "Published") => pc = "publish"

\* How often a run saves, resizes and executes a statement
C5_Bounded ==
    /\ saveCalls <= 3
    /\ resizeCalls <= 2
    /\ \A i, j \in 1..Len(trace) : trace[i] = trace[j] => i = j

\* C5: stages are entered forward only and at most once: FirstPass only
\* from Initial at the first gate when it says "needs reduction",
\* SecondPass only from FirstPass at the second gate when it says "needs
\* reduction"; no statement runs twice, the output file is written at most
\* three times and the Resizer is called at most twice.
C5_ForwardOnly == [](C5_Bounded) /\ [][C5_StageStep]_vars

C5_Witness ==
    /\ stage = "Published"
    /\ saveCalls = 3
    /\ resizeCalls = 2
    /\ InTrace("gate1") /\ InTrace("gate2")

\* C6: whenever SecondPass is entered, the image handed to the third encode
\* is exactly 800 x 800 and so is the published file, whatever its size in
\* bytes.
C6_Stage2Is800 ==
    /\ pc = "encode3" => (img_resized.w = 800 /\ img_resized.h = 800)
    /\ Len(encodes) >= 3 => (encodes[3].w = 800 /\ encodes[3].h = 800)
    /\ (stage = "Published" /\ InTrace("encode3")) =>
          (published.w = 800 /\ published.h = 800)

C6_Witness ==
    /\ stage = "Published"
    /\ src.w = 4000 /\ src.h = 3000
    /\ InTrace("encode3")
    /\ published.w = 800 /\ published.h = 800
    /\ published.bytes >= MiB

\* C7: whenever FirstPass is entered, the image handed to the second encode
\* has width floor(0.9 * original width) and height floor(0.9 * original
\* height).
C7_Stage1IsNineTenths ==
    /\ pc = "encode2" =>
          /\ img_resized.w = (9 * img.w) \div 10
          /\ img_resized.h = (9 * img.h) \div 10
    /\ Len(encodes) >= 2 =>
          /\ encodes[2].w = (9 * img.w) \div 10
          /\ encodes[2].h = (9 * img.h) \div 10

C7_Witness ==
    /\ pc = "getsize2"
    /\ img.w = 4000 /\ img.h = 3000
    /\ img_resized.w = 3600 /\ img_resized.h = 2700
    /\ encodes[2].w = 3600 /\ encodes[2].h = 2700

\* C8: each gate says "needs reduction" exactly when the file the preceding
\* encode wrote has at least 1,048,576 bytes, at both gates alike.
C8_GateAtOneMiB ==
    /\ Len(size) <= Len(encodes)
    /\ \A n \in 1..Len(size) :
          NeedsReduction(size[n]) <=> encodes[n].bytes >= 1048576
    /\ InTrace("gate1") =>
          ((pc = "newsize1" \/ InTrace("newsize1")) <=> encodes[1].bytes >= 1048576)
    /\ InTrace("gate2") =>
          ((pc = "newsize2" \/ InTrace("newsize2")) <=> encodes[2].bytes >= 1048576)

C8_Witness ==
    /\ pc = "publish"
    /\ InTrace("gate2") /\ ~InTrace("newsize2")
    /\ encodes[1].bytes = 1048576
    /\ encodes[2].bytes = 1048575

\* C9: every result of the Resizer is no larger than the original image in
\* width and in height, and the Stage 2 result is no larger than the
\* Stage 1 result.
C9_ResizeOnlyShrinks ==
    /\ InTrace("resize1") /\ fault # "resize1" =>
          (img_resized.w <= img.w /\ img_resized.h <= img.h)
    /\ pc = "encode3" =>
          (img_resized.w <= encodes[2].w /\ img_resized.h <= encodes[2].h)

\* C10: every Image value and every target size handed to the Resizer has
\* a positive width and a positive height.
C10_DimensionsPositive ==
    /\ InTrace("load") /\ fault # "load" => (img.w >= 1 /\ img.h >= 1)
    /\ InTrace("newsize1") => (new_size[1] >= 1 /\ new_size[2] >= 1)
    /\ (pc \in {"encode2", "encode3"}) => (img_resized.w >= 1 /\ img_resized.h >= 1)

====
